---- MODULE Spec2Model ----
(***************************************************************************)
(* RepoPulse ML service: the three model wrappers (RiskModel, ChurnModel,  *)
(* AnomalyModel), their lazy load-or-train lifecycle, the explanation and  *)
(* recommendation post-processing, and the FastAPI handlers of main.py.    *)
(*                                                                         *)
(* Numbers.  Scores, feature values and thresholds are fixed-point         *)
(* integers in hundredths (0.4 is 40, 7.5 is 750).  Raw IsolationForest    *)
(* decision scores are integers in units of the 1e-10 epsilon of           *)
(* AnomalyModel.predict, and anomaly scores are exact fractions [n, d].    *)
(*                                                                         *)
(* Scheduling.  Every handler of main.py is an `async def` without an      *)
(* await, so the event loop runs each handler to completion before the     *)
(* next one starts: one action is one whole handler (or one whole direct   *)
(* call of a wrapper method).                                              *)
(***************************************************************************)
EXTENDS Integers, Sequences, FiniteSets, TLC

VARIABLES
    model,                  \* wrapper -> the estimator it holds (self.model)
    is_trained,             \* wrapper -> self.is_trained
    feature_importances_,   \* RiskModel.feature_importances_ (0 is None)
    artifact,               \* wrapper -> the persisted models/<name>.joblib
    passes,                 \* wrapper -> load_or_train runs so far (history)
    last,                   \* the last call and what it did (history)
    arg,                    \* input of the pure-function specifications
    ret                     \* their result

vars == <<model, is_trained, feature_importances_, artifact, passes, last, arg, ret>>

lifeVars == <<model, is_trained, feature_importances_, artifact, passes, last>>

Wrappers == {"risk", "churn", "anomaly"}

----------------------------------------------------------------------------
(* Bounds of the model *)

\* load_or_train runs explored in one behaviour, over the three wrappers
MaxPasses == 2

\* contributors in one detect_anomalies request
MaxBatch == 3

\* how far below 0 and above 1 (in hundredths) the scores explored reach
ScoreOver == 20

----------------------------------------------------------------------------
(* Sequence helpers *)

RECURSIVE SumSeq(_)
SumSeq(s) == IF s = <<>> THEN 0 ELSE Head(s) + SumSeq(Tail(s))

Min2(a, b) == IF a < b THEN a ELSE b

SeqMin(s) == CHOOSE x \in {s[i] : i \in DOMAIN s} : \A j \in DOMAIN s : x <= s[j]

SeqMax(s) == CHOOSE x \in {s[i] : i \in DOMAIN s} : \A j \in DOMAIN s : x >= s[j]

----------------------------------------------------------------------------
(* Estimators and artifacts *)

\* self.model = None
NoModel == [kind |-> "None", n_features |-> 0, imp |-> 0]

\* an estimator object constructed but whose fit() did not complete
Unfitted(n) == [kind |-> "unfitted", n_features |-> n, imp |-> 0]

\* a fitted estimator: n_features is the column count of its training matrix,
\* imp names its feature_importances_ vector (0 for the estimators without)
Fitted(n, i) == [kind |-> "fitted", n_features |-> n, imp |-> i]

\* columns of the synthetic training matrices
RiskTrainCols == 8
ChurnTrainCols == 4
AnomalyTrainCols == 3

\* arity checked by each wrapper's predict
RiskArity == 8
ChurnArity == 4
AnomalyArity == 3

\* the importance vector the seeded synthetic training produces is vector 1;
\* a risk artifact found on disk may hold an estimator with vector 1 or 2
TrainedImp == 1
ImpIds == {1, 2}

NoExc == [type |-> "none", expected |-> 0, actual |-> 0]

Exc(t) == [type |-> t, expected |-> 0, actual |-> 0]

ValueError(e, a) == [type |-> "ValueError", expected |-> e, actual |-> a]

\* outcomes of one run of _train_synthetic
TrainOutcomes == {"ok", "fit_raises", "makedirs_raises", "dump_raises"}

\* The frame a wrapper method works on: the wrapper's fields, its artifact
\* file, and what the call has done so far.
Frame(w) ==
    [model |-> model[w], is_trained |-> is_trained[w],
     fi |-> IF w = "risk" THEN feature_importances_ ELSE 0,
     artifact |-> artifact[w],
     passes |-> 0, loads |-> 0, trains |-> 0, writes |-> 0, assigned |-> FALSE,
     tout |-> "none", exc |-> NoExc, scores |-> <<>>, top |-> <<>>,
     normalized |-> <<>>]

\* os.path.exists(model_path)
Exists(a) == a.kind # "absent"

AbsentFile == [kind |-> "absent", n_features |-> 0, imp |-> 0]
CorruptFile == [kind |-> "corrupt", n_features |-> 0, imp |-> 0]

----------------------------------------------------------------------------
(* Lifecycle: _train_synthetic and load_or_train, the same code in the     *)
(* three classes but for n, the columns of the training matrix, and hasFi, *)
(* whether the class stores feature_importances_ (RiskModel only).         *)

TrainSynthetic(s, n, hasFi, tout) ==
    LET s0 == [s EXCEPT !.trains = @ + 1, !.tout = tout, !.assigned = TRUE]
        est == Fitted(n, IF hasFi THEN TrainedImp ELSE 0)
        \* self.model.fit(X, y); self.is_trained = True; importances stored
        s1 == [s0 EXCEPT !.model = est, !.is_trained = TRUE,
                         !.fi = IF hasFi THEN est.imp ELSE @]
    IN CASE tout = "fit_raises" ->
              \* self.model was assigned the new estimator before fit() raised
              [s0 EXCEPT !.model = Unfitted(n), !.exc = Exc("TrainingError")]
         [] tout = "makedirs_raises" ->
              [s1 EXCEPT !.exc = Exc("TrainingError")]
         [] tout = "dump_raises" ->
              \* joblib.dump opened the file and failed part-way
              [s1 EXCEPT !.artifact = CorruptFile, !.exc = Exc("TrainingError")]
         [] OTHER ->
              [s1 EXCEPT !.artifact = est, !.writes = @ + 1]

\* load_or_train without the try/except around joblib.load
LoadOrTrain_NoCatch(s, n, hasFi, tout) ==
    LET p == [s EXCEPT !.passes = @ + 1]
    IN IF Exists(p.artifact)
       THEN IF p.artifact.kind = "fitted"
            THEN [p EXCEPT !.loads = @ + 1, !.assigned = TRUE,
                           !.model = p.artifact, !.is_trained = TRUE,
                           !.fi = IF hasFi THEN p.artifact.imp ELSE @]
            ELSE [p EXCEPT !.loads = @ + 1, !.exc = Exc("ArtifactLoadError")]
       ELSE TrainSynthetic(p, n, hasFi, tout)

LoadOrTrain(s, n, hasFi, tout) ==
    LET p == [s EXCEPT !.passes = @ + 1]
    IN IF Exists(p.artifact)
       THEN IF p.artifact.kind = "fitted"
            THEN \* joblib.load succeeded
                 [p EXCEPT !.loads = @ + 1, !.assigned = TRUE,
                           !.model = p.artifact, !.is_trained = TRUE,
                           !.fi = IF hasFi THEN p.artifact.imp ELSE @]
            ELSE \* joblib.load raised; except Exception: print, fall through
                 TrainSynthetic([p EXCEPT !.loads = @ + 1], n, hasFi, tout)
       ELSE TrainSynthetic(p, n, hasFi, tout)

RiskModel_load_or_train(s, tout) == LoadOrTrain(s, RiskTrainCols, TRUE, tout)

ChurnModel_load_or_train(s, tout) == LoadOrTrain(s, ChurnTrainCols, FALSE, tout)

AnomalyModel_load_or_train(s, tout) == LoadOrTrain(s, AnomalyTrainCols, FALSE, tout)

load_or_train(w, s, tout) ==
    CASE w = "risk" -> RiskModel_load_or_train(s, tout)
      [] w = "churn" -> ChurnModel_load_or_train(s, tout)
      [] OTHER -> AnomalyModel_load_or_train(s, tout)

----------------------------------------------------------------------------
(* RiskModel.get_risk_level and the churn levels of predict_churn *)

RiskLowBelow == 40
RiskMediumUpTo == 70

\* get_risk_level with the upper bound of Medium exclusive
get_risk_level_ExclusiveUpper(risk_score) ==
    IF risk_score < RiskLowBelow THEN "Low"
    ELSE IF risk_score < RiskMediumUpTo THEN "Medium"
    ELSE "High"

get_risk_level(risk_score) ==
    IF risk_score < RiskLowBelow THEN "Low"
    ELSE IF risk_score <= RiskMediumUpTo THEN "Medium"
    ELSE "High"

ChurnCriticalAbove == 80
ChurnHighAbove == 60
ChurnMediumAbove == 40

\* np.clip(x, 0, 1)
clip01(x) == IF x < 0 THEN 0 ELSE IF x > 100 THEN 100 ELSE x

\* the churn levels with inclusive comparisons
churn_level_Inclusive(churn_prob) ==
    IF churn_prob >= ChurnCriticalAbove THEN "critical"
    ELSE IF churn_prob >= ChurnHighAbove THEN "high"
    ELSE IF churn_prob >= ChurnMediumAbove THEN "medium"
    ELSE "low"

churn_level(churn_prob) ==
    IF churn_prob > ChurnCriticalAbove THEN "critical"
    ELSE IF churn_prob > ChurnHighAbove THEN "high"
    ELSE IF churn_prob > ChurnMediumAbove THEN "medium"
    ELSE "low"

----------------------------------------------------------------------------
(* RiskModel.get_feature_importance.  Importances are integers in percent, *)
(* feature values in hundredths; an impact is importance * min(value/10,1) *)
(* kept as the integer importance * min(value, 1000).  After the           *)
(* normalisation a weight is in hundredths (round(x, 2)).                  *)

FEATURE_NAMES ==
    << "PR Size (Lines)", "Files Changed", "Commit Count", "Review Comments",
       "Time to Merge", "Contributor Rejection Rate", "Contributor Experience",
       "File Churn Score" >>

\* the feature_importances_ vectors an estimator may carry
ImpVec(i) ==
    IF i = 1 THEN <<30, 20, 5, 5, 5, 20, 10, 5>>
    ELSE <<10, 10, 10, 10, 20, 20, 10, 10>>

\* value / 10 capped at 1.0, in thousandths of the cap
NormCap == 1000

\* round(n / d, 2) in hundredths, d > 0: to nearest, ties to even
Round2(n, d) ==
    LET t == 100 * n
        q == t \div d
        r == t % d
    IN IF 2 * r < d THEN q
       ELSE IF 2 * r > d THEN q + 1
       ELSE IF q % 2 = 0 THEN q ELSE q + 1

\* list.sort(key=impact_weight, reverse=True): stable, descending
InsertDesc(x, s) ==
    LET k == Cardinality({i \in DOMAIN s : s[i].impact_weight >= x.impact_weight})
    IN SubSeq(s, 1, k) \o <<x>> \o SubSeq(s, k + 1, Len(s))

RECURSIVE SortInto(_, _)
SortInto(rest, acc) ==
    IF rest = <<>> THEN acc ELSE SortInto(Tail(rest), InsertDesc(Head(rest), acc))

SortDesc(s) == SortInto(s, <<>>)

\* the impacts list before sorting: zip(self.feature_importances_, feature_values)
Impacts(imp, fv) ==
    [i \in 1..Min2(Len(imp), Len(fv)) |->
        [feature |-> FEATURE_NAMES[i], value |-> fv[i], importance |-> imp[i],
         impact_weight |-> imp[i] * Min2(fv[i], NormCap)]]

\* sum(item['impact_weight'] for item in impacts)
TotalImpact(items) == SumSeq([i \in DOMAIN items |-> items[i].impact_weight])

\* the in-place normalisation of every item of the sorted list
Normalize(items) ==
    LET total_impact == TotalImpact(items)
    IN IF total_impact > 0
       THEN [i \in DOMAIN items |->
                [items[i] EXCEPT !.impact_weight = Round2(@, total_impact)]]
       ELSE items

\* impacts[:3]
TopCount == 3

Top(items) == SubSeq(items, 1, Min2(TopCount, Len(items)))

\* the weights normalised over the returned top list instead of all features
feature_importance_TopOnly(imp, fv) == Normalize(Top(SortDesc(Impacts(imp, fv))))

feature_importance(imp, fv) == Top(Normalize(SortDesc(Impacts(imp, fv))))

----------------------------------------------------------------------------
(* generate_recommendations *)

Msg_SplitPR == "Consider splitting this PR into smaller modules to reduce review complexity."
Msg_MultipleFiles == "This PR modifies multiple files - consider modular refactoring or breaking into smaller PRs."
Msg_SeniorReviewer == "Assign a senior reviewer due to low contributor experience."
Msg_HighChurn == "High file churn detected - consider refactoring before merge to reduce technical debt."
Msg_SlowMerge == "This PR has slow merge time - prioritize review or break into smaller parts."
Msg_HighRejection == "Contributor has high rejection rate - ensure thorough testing before submission."
Msg_MultipleCommits == "Multiple commits suggest iterations - consider squash merging for cleaner history."
Msg_NoReview == "No review comments detected - request additional review or clarification."
Msg_HighRisk == "This PR has high overall risk - consider additional testing and review cycles."
Msg_LooksGood == "PR looks good - proceed with standard review process."

\* int(np.exp(f1) - 1) for the f1 values explored (f1 in hundredths:
\* exp(7.31) - 1 = 1494.17.., exp(7.32) - 1 = 1509.20.., exp(7.5) - 1 = 1807.04..)
approx_lines(f1) ==
    CASE f1 = -100 -> 0
      [] f1 = 0 -> 0
      [] f1 = 500 -> 147
      [] f1 = 700 -> 1095
      [] f1 = 731 -> 1494
      [] f1 = 732 -> 1509
      [] f1 = 750 -> 1807
      [] f1 = 800 -> 2979

LinesAbove == 1500
FilesAbove == 1000
ExperienceBelow == 30
ChurnScoreAbove == 60
MergeTimeAbove == 50
RejectionAbove == 30
CommitsAbove == 500
NoReviewRiskAbove == 50
HighRiskAbove == 70

\* one `if ...: recommendations.append(msg)` statement
AppendIf(recs, cond, msg) == IF cond THEN Append(recs, msg) ELSE recs

\* generate_recommendations with the high-risk advisory not tied to an
\* empty list
generate_recommendations_AlwaysAdvisory(features, risk_score) ==
    LET r1 == AppendIf(<<>>, approx_lines(features[1]) > LinesAbove, Msg_SplitPR)
        r2 == AppendIf(r1, features[2] > FilesAbove, Msg_MultipleFiles)
        r3 == AppendIf(r2, features[7] < ExperienceBelow, Msg_SeniorReviewer)
        r4 == AppendIf(r3, features[8] > ChurnScoreAbove, Msg_HighChurn)
        r5 == AppendIf(r4, features[5] > MergeTimeAbove, Msg_SlowMerge)
        r6 == AppendIf(r5, features[6] > RejectionAbove, Msg_HighRejection)
        r7 == AppendIf(r6, features[3] > CommitsAbove, Msg_MultipleCommits)
        r8 == AppendIf(r7, features[4] = 0 /\ risk_score > NoReviewRiskAbove, Msg_NoReview)
        r9 == AppendIf(r8, risk_score > HighRiskAbove, Msg_HighRisk)
    IN AppendIf(r9, Len(r9) = 0, Msg_LooksGood)

\* generate_recommendations with the churn rule declared before the
\* experience rule
generate_recommendations_Reordered(features, risk_score) ==
    LET r1 == AppendIf(<<>>, approx_lines(features[1]) > LinesAbove, Msg_SplitPR)
        r2 == AppendIf(r1, features[2] > FilesAbove, Msg_MultipleFiles)
        r3 == AppendIf(r2, features[8] > ChurnScoreAbove, Msg_HighChurn)
        r4 == AppendIf(r3, features[7] < ExperienceBelow, Msg_SeniorReviewer)
        r5 == AppendIf(r4, features[5] > MergeTimeAbove, Msg_SlowMerge)
        r6 == AppendIf(r5, features[6] > RejectionAbove, Msg_HighRejection)
        r7 == AppendIf(r6, features[3] > CommitsAbove, Msg_MultipleCommits)
        r8 == AppendIf(r7, features[4] = 0 /\ risk_score > NoReviewRiskAbove, Msg_NoReview)
        r9 == AppendIf(r8, risk_score > HighRiskAbove /\ Len(r8) = 0, Msg_HighRisk)
    IN AppendIf(r9, Len(r9) = 0, Msg_LooksGood)

\* features is the sequence <<f1, ..., f8>>
generate_recommendations(features, risk_score) ==
    LET r1 == AppendIf(<<>>, approx_lines(features[1]) > LinesAbove, Msg_SplitPR)
        r2 == AppendIf(r1, features[2] > FilesAbove, Msg_MultipleFiles)
        r3 == AppendIf(r2, features[7] < ExperienceBelow, Msg_SeniorReviewer)
        r4 == AppendIf(r3, features[8] > ChurnScoreAbove, Msg_HighChurn)
        r5 == AppendIf(r4, features[5] > MergeTimeAbove, Msg_SlowMerge)
        r6 == AppendIf(r5, features[6] > RejectionAbove, Msg_HighRejection)
        r7 == AppendIf(r6, features[3] > CommitsAbove, Msg_MultipleCommits)
        r8 == AppendIf(r7, features[4] = 0 /\ risk_score > NoReviewRiskAbove, Msg_NoReview)
        r9 == AppendIf(r8, risk_score > HighRiskAbove /\ Len(r8) = 0, Msg_HighRisk)
    IN AppendIf(r9, Len(r9) = 0, Msg_LooksGood)

----------------------------------------------------------------------------
(* AnomalyModel.predict post-processing and the flagging thresholds *)

\* the 1e-10 added to the range, in the unit of the raw decision scores
AnomalyEps == 1

\* the same normalization with the bare range as denominator
normalized_scores_NoEps(raw_scores) ==
    LET mn == SeqMin(raw_scores)
        den == SeqMax(raw_scores) - mn
    IN [i \in DOMAIN raw_scores |-> [n |-> raw_scores[i] - mn, d |-> den]]

\* (raw - min) / (max - min + 1e-10), as the exact fraction n / d; a fraction
\* with d = 0 stands for the nan or inf of a division by zero
normalized_scores(raw_scores) ==
    LET mn == SeqMin(raw_scores)
        den == (SeqMax(raw_scores) - mn) + AnomalyEps
    IN [i \in DOMAIN raw_scores |-> [n |-> raw_scores[i] - mn, d |-> den]]

\* 1 - normalized_scores, as the exact fraction n / d
anomaly_scores(raw_scores) ==
    LET nz == normalized_scores(raw_scores)
    IN [i \in DOMAIN raw_scores |-> [n |-> nz[i].d - nz[i].n, d |-> nz[i].d]]

\* score > threshold, threshold in hundredths
ScoreAbove(score, threshold) == 100 * score.n > threshold * score.d

\* the threshold of the loop of detect_anomalies
DetectThreshold == 50

\* the default threshold of AnomalyModel.flag_anomalies
FlagDefaultThreshold == 70

RECURSIVE FlagLoop_DefaultThreshold(_, _, _)
\* the loop of detect_anomalies with the 0.7 of flag_anomalies
FlagLoop_DefaultThreshold(scores, i, flagged) ==
    IF i > Len(scores) THEN flagged
    ELSE FlagLoop_DefaultThreshold(scores, i + 1,
            IF ScoreAbove(scores[i], FlagDefaultThreshold)
            THEN Append(flagged, [index |-> i - 1, anomaly_score |-> scores[i],
                                  flag |-> "Unusual activity pattern"])
            ELSE flagged)

RECURSIVE FlagLoop(_, _, _)
\* for i, score in enumerate(anomaly_scores): if score > 0.5: flagged.append(..)
FlagLoop(scores, i, flagged) ==
    IF i > Len(scores) THEN flagged
    ELSE FlagLoop(scores, i + 1,
            IF ScoreAbove(scores[i], DetectThreshold)
            THEN Append(flagged, [index |-> i - 1, anomaly_score |-> scores[i],
                                  flag |-> "Unusual activity pattern"])
            ELSE flagged)

\* scores > threshold, element-wise
flag_mask(scores, threshold) == [i \in DOMAIN scores |-> ScoreAbove(scores[i], threshold)]

----------------------------------------------------------------------------
(* predict and predict_batch of the three wrappers.  ncols is              *)
(* features.shape[1]; out is what the fitted estimator returns for the     *)
(* rows of the request (the estimator itself is opaque).                   *)

\* A call into the estimator held by the wrapper.  A fitted scikit-learn
\* estimator validates the column count of its input against the column
\* count it was fitted on and raises ValueError naming both.
EstimatorCall(m, ncols) ==
    CASE m.kind = "None" -> Exc("AttributeError")
      [] m.kind = "unfitted" -> Exc("NotFittedError")
      [] ncols # m.n_features -> ValueError(m.n_features, ncols)
      [] OTHER -> NoExc

\* run the estimator and return post(out), or raise what the estimator raises
Estimate(s, ncols, result) ==
    LET e == EstimatorCall(s.model, ncols)
    IN IF e # NoExc THEN [s EXCEPT !.exc = e] ELSE [s EXCEPT !.scores = result]

RiskModel_predict(s, tout, ncols, out) ==
    LET s1 == IF ~s.is_trained THEN RiskModel_load_or_train(s, tout) ELSE s
    IN IF s1.exc # NoExc THEN s1
       ELSE IF ncols # RiskArity
       THEN [s1 EXCEPT !.exc = ValueError(RiskArity, ncols)]
       ELSE Estimate(s1, ncols, out)

RiskModel_predict_batch(s, tout, ncols, out) ==
    LET s1 == IF ~s.is_trained THEN RiskModel_load_or_train(s, tout) ELSE s
    IN IF s1.exc # NoExc THEN s1 ELSE Estimate(s1, ncols, out)

ChurnModel_predict(s, tout, ncols, out) ==
    LET s1 == IF ~s.is_trained THEN ChurnModel_load_or_train(s, tout) ELSE s
    IN IF s1.exc # NoExc THEN s1
       ELSE IF ncols # ChurnArity
       THEN [s1 EXCEPT !.exc = ValueError(ChurnArity, ncols)]
       ELSE Estimate(s1, ncols, [i \in DOMAIN out |-> clip01(out[i])])

ChurnModel_predict_batch(s, tout, ncols, out) ==
    LET s1 == IF ~s.is_trained THEN ChurnModel_load_or_train(s, tout) ELSE s
    IN IF s1.exc # NoExc THEN s1
       ELSE Estimate(s1, ncols, [i \in DOMAIN out |-> clip01(out[i])])

AnomalyModel_predict(s, tout, ncols, out) ==
    LET s1 == IF ~s.is_trained THEN AnomalyModel_load_or_train(s, tout) ELSE s
    IN IF s1.exc # NoExc THEN s1
       ELSE IF ncols # AnomalyArity
       THEN [s1 EXCEPT !.exc = ValueError(AnomalyArity, ncols)]
       ELSE LET s2 == Estimate(s1, ncols, anomaly_scores(out))
            IN IF s2.exc # NoExc THEN s2
               ELSE [s2 EXCEPT !.normalized = normalized_scores(out)]

AnomalyModel_predict_batch(s, tout, ncols, out) ==
    LET s1 == IF ~s.is_trained THEN AnomalyModel_load_or_train(s, tout) ELSE s
    IN IF s1.exc # NoExc THEN s1 ELSE AnomalyModel_predict(s1, tout, ncols, out)

\* scores = self.predict(features); return scores > threshold
AnomalyModel_flag_anomalies(s, tout, ncols, out, threshold) ==
    LET s1 == AnomalyModel_predict(s, tout, ncols, out)
    IN IF s1.exc # NoExc THEN s1
       ELSE [s1 EXCEPT !.top = flag_mask(s1.scores, threshold)]

RiskModel_get_feature_importance(s, tout, fv) ==
    LET s1 == IF ~s.is_trained THEN RiskModel_load_or_train(s, tout) ELSE s
    IN IF s1.exc # NoExc THEN s1
       ELSE IF s1.fi = 0
       THEN \* zip(None, feature_values)
            [s1 EXCEPT !.exc = Exc("TypeError")]
       ELSE [s1 EXCEPT !.top = feature_importance(ImpVec(s1.fi), fv)]

predict(w, s, tout, ncols, out) ==
    CASE w = "risk" -> RiskModel_predict(s, tout, ncols, out)
      [] w = "churn" -> ChurnModel_predict(s, tout, ncols, out)
      [] OTHER -> AnomalyModel_predict(s, tout, ncols, out)

predict_batch(w, s, tout, ncols, out) ==
    CASE w = "risk" -> RiskModel_predict_batch(s, tout, ncols, out)
      [] w = "churn" -> ChurnModel_predict_batch(s, tout, ncols, out)
      [] OTHER -> AnomalyModel_predict_batch(s, tout, ncols, out)

Arity(w) ==
    CASE w = "risk" -> RiskArity
      [] w = "churn" -> ChurnArity
      [] OTHER -> AnomalyArity

----------------------------------------------------------------------------
(* State after construction (main.py creates the three wrappers at import) *)
(* and the artifact files the process may find on disk.                    *)

\* what the process may find at models/<name>.joblib when it starts:
\* nothing, an unreadable file, or a dumped estimator (for the risk model,
\* one carrying importance vector i)
DiskFile(w, kind, i) ==
    CASE kind = "absent" -> AbsentFile
      [] kind = "corrupt" -> CorruptFile
      [] w = "risk" -> Fitted(RiskTrainCols, i)
      [] w = "churn" -> Fitted(ChurnTrainCols, 0)
      [] OTHER -> Fitted(AnomalyTrainCols, 0)

\* The wrappers share no state and every call touches one wrapper, so the
\* three files start in the same condition: their combinations add nothing.
Disks ==
    {[w \in Wrappers |-> DiskFile(w, kind, i)] :
        kind \in {"absent", "corrupt", "fitted"}, i \in ImpIds}

NoCall ==
    [op |-> "init", w |-> "none", pre_trained |-> FALSE, pre_artifact |-> "none",
     passes |-> 0, loads |-> 0, trains |-> 0, writes |-> 0, assigned |-> FALSE,
     tout |-> "none", ncols |-> 0, exc |-> NoExc, scores |-> <<>>, top |-> <<>>,
     status |-> 0, level |-> "", recommendations |-> <<>>, flagged |-> <<>>,
     normalized |-> <<>>]

LifeInit ==
    /\ model = [w \in Wrappers |-> NoModel]
    /\ is_trained = [w \in Wrappers |-> FALSE]
    /\ feature_importances_ = 0
    /\ artifact \in Disks
    /\ passes = [w \in Wrappers |-> 0]
    /\ last = NoCall

Init ==
    /\ LifeInit
    /\ arg = <<>>
    /\ ret = <<>>

\* The wrapper fields and the artifact after a call that ended with frame s,
\* and the record of the call.
Commit(op, w, s, ncols, status, level, recs, flagged) ==
    /\ passes["risk"] + passes["churn"] + passes["anomaly"] + s.passes <= MaxPasses
    /\ model' = [model EXCEPT ![w] = s.model]
    /\ is_trained' = [is_trained EXCEPT ![w] = s.is_trained]
    /\ feature_importances_' = IF w = "risk" THEN s.fi ELSE feature_importances_
    /\ artifact' = [artifact EXCEPT ![w] = s.artifact]
    /\ passes' = [passes EXCEPT ![w] = @ + s.passes]
    /\ last' = [op |-> op, w |-> w, pre_trained |-> is_trained[w],
                pre_artifact |-> artifact[w].kind,
                passes |-> s.passes, loads |-> s.loads, trains |-> s.trains,
                writes |-> s.writes, assigned |-> s.assigned, tout |-> s.tout,
                ncols |-> ncols, exc |-> s.exc, scores |-> s.scores, top |-> s.top,
                status |-> status, level |-> level, recommendations |-> recs,
                flagged |-> flagged, normalized |-> s.normalized]
    /\ UNCHANGED <<arg, ret>>

\* except Exception as e: raise HTTPException(status_code=500, detail=str(e))
HttpStatus(s) == IF s.exc = NoExc THEN 200 ELSE 500

----------------------------------------------------------------------------
(* Inputs explored by the lifecycle specification *)

\* the risk features of the end-to-end example, and a quiet pull request
E2EFeatures == <<750, 1500, 600, 0, 60, 40, 20, 70>>
QuietFeatures == <<0, 100, 100, 200, 10, 10, 80, 10>>
FeatureSamples == {E2EFeatures, QuietFeatures}

\* what the estimators return: class-1 probabilities, regression outputs,
\* and batches of decision scores
RiskOutSamples == {30, 80}
ChurnOutSamples == {-5, 50}
RawBatchSamples == {<<0>>, <<-10, 0, 10>>}

\* The outcomes of training that a call of wrapper w can meet: training runs
\* only when no loadable artifact is on disk.
Outcomes(w) == IF artifact[w].kind = "fitted" THEN {"ok"} ELSE TrainOutcomes

OutSamples(w) ==
    CASE w = "risk" -> {<<80>>}
      [] w = "churn" -> {<<50>>}
      [] OTHER -> {<<-10, 0, 10>>}

ColSamples(w) == {Arity(w) - 1, Arity(w), Arity(w) + 1}

----------------------------------------------------------------------------
(* Direct calls of the wrapper methods *)

CallLoadOrTrain(w) ==
    \E tout \in Outcomes(w) :
    \E s \in {load_or_train(w, Frame(w), tout)} :
        Commit("load_or_train", w, s, 0, 0, "", <<>>, <<>>)

CallPredict(w) ==
    \E tout \in Outcomes(w), ncols \in ColSamples(w), out \in OutSamples(w) :
    \E s \in {predict(w, Frame(w), tout, ncols, out)} :
        Commit("predict", w, s, ncols, 0, "", <<>>, <<>>)

CallPredictBatch(w) ==
    \E tout \in Outcomes(w), ncols \in ColSamples(w), out \in OutSamples(w) :
    \E s \in {predict_batch(w, Frame(w), tout, ncols, out)} :
        Commit("predict_batch", w, s, ncols, 0, "", <<>>, <<>>)

CallGetFeatureImportance ==
    \E tout \in Outcomes("risk"), fv \in FeatureSamples :
    \E s \in {RiskModel_get_feature_importance(Frame("risk"), tout, fv)} :
        Commit("get_feature_importance", "risk", s, 0, 0, "", <<>>, <<>>)

CallFlagAnomalies ==
    \E tout \in Outcomes("anomaly"), out \in RawBatchSamples :
    \E s \in {AnomalyModel_flag_anomalies(Frame("anomaly"), tout, AnomalyArity, out,
                                          FlagDefaultThreshold)} :
        Commit("flag_anomalies", "anomaly", s, AnomalyArity, 0, "", <<>>, <<>>)

----------------------------------------------------------------------------
(* The handlers of main.py *)

\* POST /ml/train-risk-model
train_risk_model ==
    \E tout \in Outcomes("risk") :
    \E s \in {RiskModel_load_or_train(Frame("risk"), tout)} :
        Commit("train_risk_model", "risk", s, 0, HttpStatus(s), "", <<>>, <<>>)

\* POST /ml/predict-risk with the features fv, the estimator answering score
predict_risk(fv, score) ==
    \E tout \in Outcomes("risk") :
    \E s1 \in {RiskModel_predict(Frame("risk"), tout, Len(fv), <<score>>)} :
    \E s2 \in {IF s1.exc # NoExc THEN s1
               ELSE RiskModel_get_feature_importance(s1, tout, fv)} :
        Commit("predict_risk", "risk", s2, Len(fv), HttpStatus(s2),
               IF s2.exc = NoExc THEN get_risk_level(s2.scores[1]) ELSE "",
               IF s2.exc = NoExc THEN generate_recommendations(fv, s2.scores[1])
               ELSE <<>>,
               <<>>)

\* POST /ml/predict-churn, the estimator answering raw
predict_churn(raw) ==
    \E tout \in Outcomes("churn") :
    \E s \in {ChurnModel_predict(Frame("churn"), tout, ChurnArity, <<raw>>)} :
        Commit("predict_churn", "churn", s, ChurnArity, HttpStatus(s),
               IF s.exc = NoExc THEN churn_level(s.scores[1]) ELSE "",
               <<>>, <<>>)

\* POST /ml/detect-anomalies; batch holds the decision score the estimator
\* gives each contributor of the request, in request order
detect_anomalies(batch) ==
    IF batch = <<>>
    THEN \* if not features: return the empty response
         /\ last' = [NoCall EXCEPT !.op = "detect_anomalies", !.w = "anomaly",
                                   !.pre_trained = is_trained["anomaly"],
                                   !.pre_artifact = artifact["anomaly"].kind,
                                   !.status = 200]
         /\ UNCHANGED <<model, is_trained, feature_importances_, artifact, passes,
                        arg, ret>>
    ELSE \E tout \in Outcomes("anomaly") :
         \E s \in {AnomalyModel_predict(Frame("anomaly"), tout, AnomalyArity, batch)} :
            Commit("detect_anomalies", "anomaly", s, AnomalyArity, HttpStatus(s), "",
                   <<>>,
                   IF s.exc = NoExc THEN FlagLoop(s.scores, 1, <<>>) ELSE <<>>)

----------------------------------------------------------------------------
(* The lifecycle specification: any sequence of handler and wrapper calls *)

PredictRiskStep == \E fv \in FeatureSamples, score \in RiskOutSamples : predict_risk(fv, score)

PredictChurnStep == \E raw \in ChurnOutSamples : predict_churn(raw)

DetectAnomaliesStep == \E batch \in RawBatchSamples \cup {<<>>} : detect_anomalies(batch)

WrapperCall ==
    \E w \in Wrappers : CallLoadOrTrain(w) \/ CallPredict(w) \/ CallPredictBatch(w)

Next ==
    \/ train_risk_model
    \/ PredictRiskStep
    \/ PredictChurnStep
    \/ DetectAnomaliesStep
    \/ WrapperCall
    \/ CallGetFeatureImportance
    \/ CallFlagAnomalies

Spec == Init /\ [][Next]_vars

----------------------------------------------------------------------------------------------------------------------------------------
(* Specifications of the post-processing functions: the initial states     *)
(* draw the input, the steps apply the function or the handler to it.      *)

\* risk and churn scores explored, in hundredths
ScoreRange == (0 - ScoreOver)..(100 + ScoreOver)

\* the wrappers as constructed, nothing on disk
IdleInit ==
    /\ model = [w \in Wrappers |-> NoModel]
    /\ is_trained = [w \in Wrappers |-> FALSE]
    /\ feature_importances_ = 0
    /\ artifact = [w \in Wrappers |-> AbsentFile]
    /\ passes = [w \in Wrappers |-> 0]
    /\ last = NoCall

\* risk_model.get_risk_level(arg)
RiskLevelStep ==
    /\ ret = <<>>
    /\ ret' = <<get_risk_level(arg)>>
    /\ UNCHANGED <<lifeVars, arg>>

\* POST /ml/predict-churn, the estimator answering arg
PredictChurnArg == predict_churn(arg)

LevelsInit == LifeInit /\ arg \in ScoreRange /\ ret = <<>>

LevelsNext == RiskLevelStep \/ PredictChurnArg

SpecLevels == LevelsInit /\ [][LevelsNext]_vars

\* feature vectors of get_feature_importance: zero, below and above the cap
\* of value / 10
FIFeatures ==
    {<<a, b, c, d, e, f, g, h>> :
        a \in {0, 300, 700, 2000}, b \in {0, 300, 700, 2000},
        c \in {0, 300, 700, 2000}, d \in {0, 700, 2000}, e \in {0, 700, 2000},
        f \in {0, 700, 2000}, g \in {0, 700}, h \in {0, 700}}

FIInit ==
    /\ IdleInit
    /\ arg \in [imp : ImpIds, fv : FIFeatures]
    /\ ret = <<>>

\* the explanation of one request, the estimator carrying vector arg.imp
FIStep ==
    /\ ret = <<>>
    /\ ret' = <<feature_importance(ImpVec(arg.imp), arg.fv)>>
    /\ UNCHANGED <<lifeVars, arg>>

SpecFI == FIInit /\ [][FIStep]_vars

\* inputs of generate_recommendations: each feature on both sides of its
\* threshold, and the values of the end-to-end example
RecFeatures ==
    {<<f1, f2, f3, f4, f5, f6, f7, f8>> :
        f1 \in {0, 731, 732, 750}, f2 \in {1000, 1001, 1500}, f3 \in {500, 600},
        f4 \in {0, 100}, f5 \in {50, 60}, f6 \in {30, 40}, f7 \in {20, 30},
        f8 \in {60, 70}}

RecRiskScores == {50, 51, 70, 71}

RecInit ==
    /\ IdleInit
    /\ arg \in [fv : RecFeatures, risk : RecRiskScores]
    /\ ret = <<>>

RecStep ==
    /\ ret = <<>>
    /\ ret' = <<generate_recommendations(arg.fv, arg.risk)>>
    /\ UNCHANGED <<lifeVars, arg>>

SpecRec == RecInit /\ [][RecStep]_vars

\* decision scores of the contributors of one request
RawValues == {-10, 0, 10, 40}

RECURSIVE SeqsUpTo(_, _)
SeqsUpTo(S, n) ==
    IF n = 0 THEN {<<>>}
    ELSE LET shorter == SeqsUpTo(S, n - 1)
         IN shorter \cup {Append(q, x) : q \in {r \in shorter : Len(r) = n - 1}, x \in S}

AnomalyInit == LifeInit /\ arg \in SeqsUpTo(RawValues, MaxBatch) /\ ret = <<>>

\* POST /ml/detect-anomalies for the contributors of arg
DetectAnomaliesArg == detect_anomalies(arg)

\* anomaly_model.flag_anomalies(features) for the same contributors
FlagAnomaliesArg ==
    /\ arg # <<>>
    /\ \E tout \in Outcomes("anomaly") :
       \E s \in {AnomalyModel_flag_anomalies(Frame("anomaly"), tout, AnomalyArity, arg,
                                             FlagDefaultThreshold)} :
           Commit("flag_anomalies", "anomaly", s, AnomalyArity, 0, "", <<>>, <<>>)

AnomalyNext == DetectAnomaliesArg \/ FlagAnomaliesArg

SpecAnomaly == AnomalyInit /\ [][AnomalyNext]_vars

----------------
(* Properties of the lifecycle *)

\* C1: load_or_train is idempotent: a call of load_or_train, direct or
\* through train_risk_model, on a wrapper that is already trained reads no
\* artifact, runs no training, writes no artifact and leaves self.model alone.
C1_LoadOrTrainIdempotent ==
    (last.op \in {"load_or_train", "train_risk_model"} /\ last.pre_trained) =>
        /\ last.loads = 0
        /\ last.trains = 0
        /\ last.writes = 0
        /\ ~last.assigned

\* C2: initialization is single-flight: over the whole life of the process
\* each wrapper runs at most one load-or-train pass.  (Handlers run one at a
\* time on the event loop, so two passes never overlap; what is left of the
\* claim is the count.)
C2_AtMostOnePass == \A w \in Wrappers : passes[w] <= 1

\* C3: a load_or_train pass that finds the artifact absent or unreadable
\* falls back to synthetic training and never surfaces the load error; when
\* the training itself succeeds the wrapper is left trained, holds the fitted
\* estimator, the new artifact is on disk, and the caller sees no failure of
\* the lifecycle.
C3_LoadFailureRecovered ==
    (last.passes > 0 /\ last.pre_artifact \in {"absent", "corrupt"}) =>
        /\ last.trains = 1
        /\ last.exc.type # "ArtifactLoadError"
        /\ last.tout = "ok" =>
              /\ is_trained[last.w]
              /\ model[last.w].kind = "fitted"
              /\ artifact[last.w] = model[last.w]
              /\ last.writes = 1
              /\ last.exc.type \in {"none", "ValueError"}
              /\ last.status \in {0, 200}

C3_Witness ==
    /\ last.op = "predict_churn"
    /\ last.pre_artifact = "corrupt"
    /\ last.loads = 1
    /\ last.tout = "ok"
    /\ last.status = 200
    /\ artifact["churn"].kind = "fitted"

\* C4: a predict or predict_batch call whose vectors have a length other
\* than the wrapper's arity (8 risk, 4 churn, 3 anomaly), in which getting
\* the wrapper ready did not itself fail, fails with a ValueError naming the
\* expected and the actual length and returns no scores.
C4_ArityValidated ==
    (/\ last.op \in {"predict", "predict_batch"}
     /\ last.ncols # (CASE last.w = "risk" -> 8 [] last.w = "churn" -> 4 [] OTHER -> 3)
     /\ last.exc.type # "TrainingError") =>
        /\ last.exc = [type |-> "ValueError",
                       expected |-> (CASE last.w = "risk" -> 8
                                       [] last.w = "churn" -> 4 [] OTHER -> 3),
                       actual |-> last.ncols]
        /\ last.scores = <<>>

----------------------------------------------------------------------------
(* Properties of the explanation (SpecFI) *)

\* the impact of feature j of the request, and the total over all features
RawImpact(j) == ImpVec(arg.imp)[j] * Min2(arg.fv[j], NormCap)

RawTotal == SumSeq([j \in 1..8 |-> RawImpact(j)])

TopWeights == [i \in DOMAIN ret[1] |-> ret[1][i].impact_weight]

SortedDesc(ws) == \A i \in 1..(Len(ws) - 1) : ws[i] >= ws[i + 1]

\* w is n / d rounded to the nearest hundredth
IsRounded(w, n, d) == 2 * (100 * n - w * d) <= d /\ 2 * (w * d - 100 * n) <= d

\* the feature (by position in the request) an entry of the result is about
IndexOf(item) == CHOOSE j \in 1..8 : FEATURE_NAMES[j] = item.feature

\* C5 as claimed: at most 3 factors, sorted by descending impact weight, and
\* whenever the total impact is positive the weights of the returned list
\* sum to 1 (within the rounding of three weights to 2 decimals), whatever
\* the excluded features are.
C5_TopWeightsSumToOne ==
    ret # <<>> =>
        /\ Len(ret[1]) <= 3
        /\ SortedDesc(TopWeights)
        /\ RawTotal > 0 => SumSeq(TopWeights) \in 99..101

\* C5 amended: at most 3 factors, sorted by descending impact weight; whenever
\* the total impact is positive each returned weight is that feature's impact
\* divided by the total impact of all eight features, rounded to 2 decimals,
\* so the returned weights sum to 1 (within rounding) when the excluded
\* features carry no impact, and otherwise to what the excluded ones leave.
C5_WeightsAreSharesOfAll ==
    ret # <<>> =>
        /\ Len(ret[1]) <= 3
        /\ SortedDesc(TopWeights)
        /\ RawTotal > 0 =>
              /\ \A i \in DOMAIN ret[1] :
                    IsRounded(ret[1][i].impact_weight, RawImpact(IndexOf(ret[1][i])), RawTotal)
              /\ (\A j \in 1..8 : (\A i \in DOMAIN ret[1] : IndexOf(ret[1][i]) # j)
                                      => RawImpact(j) = 0)
                    => SumSeq(TopWeights) \in 99..101

\* a request whose excluded features carry part of the impact
C5_Witness ==
    /\ ret # <<>>
    /\ RawTotal > 0
    /\ Len(ret[1]) = 3
    /\ SumSeq(TopWeights) < 90
    /\ \E j \in 1..8 : RawImpact(j) > 0 /\ \A i \in 1..3 : IndexOf(ret[1][i]) # j

----------------------------------------------------------------------------
(* Properties of the recommendations (SpecRec) *)

\* the rule messages in declaration order, and whether each rule triggers
RuleMessages ==
    <<Msg_SplitPR, Msg_MultipleFiles, Msg_SeniorReviewer, Msg_HighChurn,
      Msg_SlowMerge, Msg_HighRejection, Msg_MultipleCommits, Msg_NoReview>>

Triggered(k) ==
    CASE k = 1 -> approx_lines(arg.fv[1]) > 1500
      [] k = 2 -> arg.fv[2] > 1000
      [] k = 3 -> arg.fv[7] < 30
      [] k = 4 -> arg.fv[8] > 60
      [] k = 5 -> arg.fv[5] > 50
      [] k = 6 -> arg.fv[6] > 30
      [] k = 7 -> arg.fv[3] > 500
      [] k = 8 -> arg.fv[4] = 0 /\ arg.risk > 50

Contains(s, x) == \E i \in DOMAIN s : s[i] = x

RECURSIVE TriggeredFrom(_)
\* the messages of the triggered rules k..8, in declaration order
TriggeredFrom(k) ==
    IF k > 8 THEN <<>>
    ELSE (IF Triggered(k) THEN <<RuleMessages[k]>> ELSE <<>>) \o TriggeredFrom(k + 1)

\* C6: the result is never empty; when no rule triggers it is exactly one
\* message, the high-risk advisory if the risk score exceeds 0.7 and the
\* "looks good" message otherwise; neither appears when a rule triggered.
C6_NeverEmpty ==
    ret # <<>> =>
        /\ Len(ret[1]) >= 1
        /\ (\A k \in 1..8 : ~Triggered(k)) =>
              ret[1] = <<IF arg.risk > 70 THEN Msg_HighRisk ELSE Msg_LooksGood>>
        /\ (\E k \in 1..8 : Triggered(k)) =>
              ~Contains(ret[1], Msg_HighRisk) /\ ~Contains(ret[1], Msg_LooksGood)

C6_Witness ==
    /\ ret = << <<Msg_HighRisk>> >>
    /\ arg.risk = 71
    /\ \A k \in 1..8 : ~Triggered(k)

\* C7: one message per triggered rule, in declaration order, each rule
\* decided by its own condition alone; the end-to-end example yields the
\* first seven messages in that order.
C7_DeclarationOrder ==
    ret # <<>> =>
        /\ (\E k \in 1..8 : Triggered(k)) => ret[1] = TriggeredFrom(1)
        /\ arg.fv = <<750, 1500, 600, 0, 60, 40, 20, 70>> =>
              /\ Len(ret[1]) >= 7
              /\ SubSeq(ret[1], 1, 7) = SubSeq(RuleMessages, 1, 7)

C7_Witness ==
    /\ arg.fv = <<750, 1500, 600, 0, 60, 40, 20, 70>>
    /\ arg.risk = 50
    /\ ret = <<SubSeq(RuleMessages, 1, 7)>>

----------------------------------------------------------------------------
(* Properties of the levels (SpecLevels) *)

\* C8: risk_level(s) is "Low" iff s < 0.4, "Medium" iff 0.4 <= s <= 0.7 and
\* "High" iff s > 0.7.
C8_RiskLevel ==
    ret # <<>> =>
        /\ ret[1] = "Low" <=> arg < 40
        /\ ret[1] = "Medium" <=> (40 <= arg /\ arg <= 70)
        /\ ret[1] = "High" <=> arg > 70

C8_Witness == ret = <<"Medium">> /\ arg = 70

\* C9: predict_churn answers with a score in [0, 1] and exactly one level:
\* "critical" iff s > 0.8, "high" iff 0.6 < s <= 0.8, "medium" iff
\* 0.4 < s <= 0.6, "low" iff s <= 0.4.
C9_ChurnLevel ==
    (last.op = "predict_churn" /\ last.status = 200) =>
        LET s == last.scores[1] IN
        /\ Len(last.scores) = 1
        /\ 0 <= s /\ s <= 100
        /\ (arg \in 0..100) => s = arg
        /\ last.level \in {"critical", "high", "medium", "low"}
        /\ last.level = "critical" <=> s > 80
        /\ last.level = "high" <=> (60 < s /\ s <= 80)
        /\ last.level = "medium" <=> (40 < s /\ s <= 60)
        /\ last.level = "low" <=> s <= 40

C9_Witness ==
    /\ last.op = "predict_churn"
    /\ last.status = 200
    /\ last.scores = <<80>>
    /\ last.level = "high"

----------------------------------------------------------------------------
(* Properties of the anomaly flagging (SpecAnomaly) *)

----------------------------------------------------------------------------
(* Properties of the anomaly normalization (SpecAnomaly) *)

\* the raw decision scores of the request are all equal (one contributor
\* included)
Degenerate(raw_scores) ==
    /\ raw_scores # <<>>
    /\ \A i, j \in DOMAIN raw_scores : raw_scores[i] = raw_scores[j]

\* C11: for a batch whose raw decision scores are all equal, a single
\* contributor included, a predict that reaches the normalization divides by
\* a non-zero denominator (no division error) and every normalized score is
\* 0, so that every anomaly score is 1; the call fails only if getting the
\* wrapper ready failed.
C11_DegenerateBatchNormalized ==
    (last.op \in {"detect_anomalies", "flag_anomalies"} /\ Degenerate(arg)) =>
        /\ last.exc.type \in {"none", "TrainingError"}
        /\ last.exc = NoExc =>
              /\ Len(last.normalized) = Len(arg)
              /\ Len(last.scores) = Len(arg)
              /\ \A i \in DOMAIN last.normalized :
                    /\ last.normalized[i].d > 0
                    /\ last.normalized[i].n = 0
                    /\ last.scores[i].d > 0
                    /\ last.scores[i].n = last.scores[i].d

\* three contributors with the same decision score, answered with three
\* normalized scores of 0 (and all three flagged)
C11_Witness ==
    /\ last.op = "detect_anomalies"
    /\ last.status = 200
    /\ arg = <<10, 10, 10>>
    /\ Len(last.normalized) = 3
    /\ \A i \in 1..3 : last.normalized[i] = [n |-> 0, d |-> AnomalyEps]
    /\ Len(last.flagged) = 3

----------------------------------------------------------------------------
(* The lifecycle invariant (Spec) *)

\* C12: whenever is_trained is true the wrapper holds a fitted estimator
\* (and the Risk wrapper holds feature importances), so that no call reads an
\* absent or an unfitted estimator, whatever calls came before and whichever
\* of them failed to load or to train.
C12_TrainedHoldsFitted ==
    /\ \A w \in Wrappers :
          is_trained[w] =>
              /\ model[w].kind = "fitted"
              /\ w = "risk" => feature_importances_ # 0
    /\ last.exc.type \notin {"AttributeError", "NotFittedError", "TypeError"}

\* C12, second half: is_trained never goes from true back to false
C12_TrainedIsStable ==
    [][\A w \in Wrappers : is_trained[w] => is_trained'[w]]_vars

\* a trained wrapper is called again and stays trained
C12_StableWitness ==
    /\ last.pre_trained
    /\ last.op \in {"load_or_train", "train_risk_model"}
    /\ last.trains = 1
    /\ is_trained[last.w]

====
